---- MODULE Spec2Model ----
(***************************************************************************)
(* A model of biotite's base pair identification                           *)
(* (src/src/biotite/structure/basepairs.py).                               *)
(*                                                                         *)
(* Coordinates are fixed-point numbers: one unit is 0.001 Angstrom, so the *)
(* template coordinates of the source (three decimals) are integers and    *)
(* every distance comparison "distance(a, b) <= c" is the exact comparison  *)
(* of the squared distance with the squared cutoff.  Reference frames are  *)
(* rotations that map the coordinate axes onto coordinate axes, so that    *)
(* the transformed axes are integer unit vectors.                          *)
(***************************************************************************)
EXTENDS Integers, Sequences, FiniteSets, TLC

(***************************************************************************)
(* Bounds of the model.                                                    *)
(***************************************************************************)
\* the largest number of residues of an input structure
MaxRes == 2
\* the number of consecutive get_basepairs calls on the same structure
MaxRuns == 2

(***************************************************************************)
(* Vectors (numpy arrays of shape (3,)).                                   *)
(***************************************************************************)
Vec(x, y, z) == <<x, y, z>>

VAdd(a, b) == <<a[1] + b[1], a[2] + b[2], a[3] + b[3]>>

VSub(a, b) == <<a[1] - b[1], a[2] - b[2], a[3] - b[3]>>

VScale(t, a) == <<t * a[1], t * a[2], t * a[3]>>

\* np.dot of two vectors
dot(a, b) == a[1] * b[1] + a[2] * b[2] + a[3] * b[3]

\* the square of util.distance(a, b)
distance2(a, b) == dot(VSub(a, b), VSub(a, b))

\* distance(a, b) <= c, for a cutoff c >= 0 in model units
DistLE(a, b, c) == distance2(a, b) <= c * c

\* distance(a, b) > c
DistGT(a, b, c) == distance2(a, b) > c * c

RECURSIVE SumCoord(_, _, _)
SumCoord(coords, ids, k) ==
    IF ids = <<>> THEN 0
    ELSE coords[Head(ids)][k] + SumCoord(coords, Tail(ids), k)

\* np.mean(coords[ids], axis=-2), rounded down to the model's resolution
mean(coords, ids) ==
    <<SumCoord(coords, ids, 1) \div Len(ids),
      SumCoord(coords, ids, 2) \div Len(ids),
      SumCoord(coords, ids, 3) \div Len(ids)>>

(***************************************************************************)
(* Atoms and atom arrays (biotite.structure.atoms).                        *)
(***************************************************************************)
Atom(coord, atom_name, res_name) ==
    [coord |-> coord, atom_name |-> atom_name, res_name |-> res_name,
     element |-> "", res_id |-> 0, chain_id |-> ""]

\* array[mask] for a boolean mask (a sequence of booleans of the same length)
RECURSIVE MaskSel(_, _)
MaskSel(array, mask) ==
    IF array = <<>> THEN <<>>
    ELSE IF Head(mask) THEN <<Head(array)>> \o MaskSel(Tail(array), Tail(mask))
         ELSE MaskSel(Tail(array), Tail(mask))

atom_names(array) == {array[i].atom_name : i \in 1..Len(array)}

\* zero-based index list, as written in the source, to one-based positions
Ids(zero_based) == [i \in 1..Len(zero_based) |-> zero_based[i] + 1]

(***************************************************************************)
(* The standard base library.                                              *)
(***************************************************************************)
\* the mask allocated one entry too long
_get_1d_boolean_maskTooLong(size, true_ids) ==
    [i \in 1..(size + 1) |-> \E j \in 1..Len(true_ids) : true_ids[j] + 1 = i]

_get_1d_boolean_mask(size, true_ids) ==
    [i \in 1..size |-> \E j \in 1..Len(true_ids) : true_ids[j] + 1 = i]

\* array.copy() with atom_name[ids] = names
Renamed(array, ids, names) ==
    [i \in 1..Len(array) |->
        IF \E j \in 1..Len(ids) : ids[j] + 1 = i
        THEN [array[i] EXCEPT !.atom_name =
                 names[CHOOSE j \in 1..Len(ids) : ids[j] + 1 = i]]
        ELSE array[i]]

Coords(array) == [i \in 1..Len(array) |-> array[i].coord]

_get_std_adenine ==
    LET pdbv2 == <<
            Atom(<<-2479, 5346, 0>>, "C1*", "A"),
            Atom(<<-1291, 4498, 0>>, "N9", "A"),
            Atom(<<24, 4897, 0>>, "C8", "A"),
            Atom(<<877, 3902, 0>>, "N7", "A"),
            Atom(<<71, 2771, 0>>, "C5", "A"),
            Atom(<<369, 1398, 0>>, "C6", "A"),
            Atom(<<1611, 909, 0>>, "N6", "A"),
            Atom(<<-668, 532, 0>>, "N1", "A"),
            Atom(<<-1912, 1023, 0>>, "C2", "A"),
            Atom(<<-2320, 2290, 0>>, "N3", "A"),
            Atom(<<-1267, 3124, 0>>, "C4", "A")>>
        pdbv3 == Renamed(pdbv2, <<0>>, <<"C1'">>)
    IN  [bases |-> <<pdbv2, pdbv3>>,
         ring_centers |-> <<mean(Coords(pdbv2), Ids(<<4, 5, 7, 8, 9, 10>>)),
                            mean(Coords(pdbv2), Ids(<<1, 2, 3, 4, 10>>))>>,
         hbond_masks |-> <<_get_1d_boolean_mask(Len(pdbv2), <<1, 6>>),
                           _get_1d_boolean_mask(Len(pdbv2), <<1, 3, 6, 7, 9>>)>>]

_get_std_cytosine ==
    LET pdbv2 == <<
            Atom(<<-2477, 5402, 0>>, "C1*", "C"),
            Atom(<<-1285, 4542, 0>>, "N1", "C"),
            Atom(<<-1472, 3158, 0>>, "C2", "C"),
            Atom(<<-2628, 2709, 0>>, "O2", "C"),
            Atom(<<-391, 2344, 0>>, "N3", "C"),
            Atom(<<837, 2868, 0>>, "C4", "C"),
            Atom(<<1875, 2027, 0>>, "N4", "C"),
            Atom(<<1056, 4275, 0>>, "C5", "C"),
            Atom(<<-23, 5068, 0>>, "C6", "C")>>
        pdbv3 == Renamed(pdbv2, <<0>>, <<"C1'">>)
    IN  [bases |-> <<pdbv2, pdbv3>>,
         ring_centers |-> <<mean(Coords(pdbv2), Ids(<<1, 2, 4, 5, 7, 8>>))>>,
         hbond_masks |-> <<_get_1d_boolean_mask(Len(pdbv2), <<1, 6>>),
                           _get_1d_boolean_mask(Len(pdbv2), <<1, 3, 4, 6>>)>>]

_get_std_guanine ==
    LET pdbv2 == <<
            Atom(<<-2477, 5399, 0>>, "C1*", "G"),
            Atom(<<-1289, 4551, 0>>, "N9", "G"),
            Atom(<<23, 4962, 0>>, "C8", "G"),
            Atom(<<870, 3969, 0>>, "N7", "G"),
            Atom(<<71, 2833, 0>>, "C5", "G"),
            Atom(<<424, 1460, 0>>, "C6", "G"),
            Atom(<<1554, 955, 0>>, "O6", "G"),
            Atom(<<-700, 641, 0>>, "N1", "G"),
            Atom(<<-1999, 1087, 0>>, "C2", "G"),
            Atom(<<-2949, 139, -1>>, "N2", "G"),
            Atom(<<-2342, 2364, 1>>, "N3", "G"),
            Atom(<<-1265, 3177, 0>>, "C4", "G")>>
        pdbv3 == Renamed(pdbv2, <<0>>, <<"C1'">>)
    IN  [bases |-> <<pdbv2, pdbv3>>,
         ring_centers |-> <<mean(Coords(pdbv2), Ids(<<4, 5, 7, 8, 10, 11>>)),
                            mean(Coords(pdbv2), Ids(<<1, 2, 3, 4, 11>>))>>,
         hbond_masks |-> <<_get_1d_boolean_mask(Len(pdbv2), <<1, 7, 9>>),
                           _get_1d_boolean_mask(Len(pdbv2),
                                                <<1, 3, 6, 7, 9, 10>>)>>]

_get_std_thymine ==
    LET pdbv2 == <<
            Atom(<<-2481, 5354, 0>>, "C1*", "T"),
            Atom(<<-1284, 4500, 0>>, "N1", "T"),
            Atom(<<-1462, 3135, 0>>, "C2", "T"),
            Atom(<<-2562, 2608, 0>>, "O2", "T"),
            Atom(<<-298, 2407, 0>>, "N3", "T"),
            Atom(<<994, 2897, 0>>, "C4", "T"),
            Atom(<<1944, 2119, 0>>, "O4", "T"),
            Atom(<<1106, 4338, 0>>, "C5", "T"),
            Atom(<<2466, 4961, 1>>, "C5M", "T"),
            Atom(<<-24, 5057, 0>>, "C6", "T")>>
        pdbv3 == Renamed(pdbv2, <<0, 8>>, <<"C1'", "C7">>)
    IN  [bases |-> <<pdbv2, pdbv3>>,
         ring_centers |-> <<mean(Coords(pdbv2), Ids(<<1, 2, 4, 5, 7, 9>>))>>,
         hbond_masks |-> <<_get_1d_boolean_mask(Len(pdbv2), <<1, 4>>),
                           _get_1d_boolean_mask(Len(pdbv2), <<1, 3, 4, 6>>)>>]

_get_std_uracil ==
    LET pdbv2 == <<
            Atom(<<-2481, 5354, 0>>, "C1*", "U"),
            Atom(<<-1284, 4500, 0>>, "N1", "U"),
            Atom(<<-1462, 3131, 0>>, "C2", "U"),
            Atom(<<-2563, 2608, 0>>, "O2", "U"),
            Atom(<<-302, 2397, 0>>, "N3", "U"),
            Atom(<<989, 2884, 0>>, "C4", "U"),
            Atom(<<1935, 2094, -1>>, "O4", "U"),
            Atom(<<1089, 4311, 0>>, "C5", "U"),
            Atom(<<-24, 5053, 0>>, "C6", "U")>>
        pdbv3 == Renamed(pdbv2, <<0>>, <<"C1'">>)
    IN  [bases |-> <<pdbv2, pdbv3>>,
         ring_centers |-> <<mean(Coords(pdbv2), Ids(<<1, 2, 4, 5, 7, 8>>))>>,
         hbond_masks |-> <<_get_1d_boolean_mask(Len(pdbv2), <<1, 4>>),
                           _get_1d_boolean_mask(Len(pdbv2), <<1, 3, 4, 6>>)>>]

_adenine_containing_nucleotides == {"A", "DA"}

_thymine_containing_nucleotides == {"T", "DT"}

_cytosine_containing_nucleotides == {"C", "DC"}

_guanine_containing_nucleotides == {"G", "DG"}

_uracil_containing_nucleotides == {"U", "DU"}

\* the residue names of info.nucleotides.nucleotide_names(): the chemical
\* component dictionary's nucleotides, of which the model keeps the ten
\* names above and one modified nucleotide (pseudouridine)
_nucleotide_list ==
    {"A", "DA", "T", "DT", "C", "DC", "G", "DG", "U", "DU", "PSU"}

\* the module-level template data, set once when the module is loaded
_std_adenine == _get_std_adenine.bases

_std_adenine_ring_centers == _get_std_adenine.ring_centers

_std_adenine_hbond_masks == _get_std_adenine.hbond_masks

_std_cytosine == _get_std_cytosine.bases

_std_cytosine_ring_centers == _get_std_cytosine.ring_centers

_std_cytosine_hbond_masks == _get_std_cytosine.hbond_masks

_std_guanine == _get_std_guanine.bases

_std_guanine_ring_centers == _get_std_guanine.ring_centers

_std_guanine_hbond_masks == _get_std_guanine.hbond_masks

_std_thymine == _get_std_thymine.bases

_std_thymine_ring_centers == _get_std_thymine.ring_centers

_std_thymine_hbond_masks == _get_std_thymine.hbond_masks

_std_uracil == _get_std_uracil.bases

_std_uracil_ring_centers == _get_std_uracil.ring_centers

_std_uracil_hbond_masks == _get_std_uracil.hbond_masks

(***************************************************************************)
(* Rigid transformations.  A rotation is given by the images of the three  *)
(* coordinate axes (the columns of the rotation matrix).                   *)
(***************************************************************************)
\* np.dot(rot, v)
Rotate(rot, v) ==
    VAdd(VAdd(VScale(v[1], rot[1]), VScale(v[2], rot[2])),
         VScale(v[3], rot[3]))

\* the identity
RotI == <<<<1, 0, 0>>, <<0, 1, 0>>, <<0, 0, 1>>>>

\* the half turn about the x-axis: the frame of the complementary base of a
\* Watson-Crick pair
RotX == <<<<1, 0, 0>>, <<0, -1, 0>>, <<0, 0, -1>>>>

\* the half turn about the bisector of the x- and the y-axis
RotS == <<<<0, 1, 0>>, <<1, 0, 0>>, <<0, 0, -1>>>>

\* the half turn about the z-axis
RotZ == <<<<-1, 0, 0>>, <<0, -1, 0>>, <<0, 0, 1>>>>

\* a transformation as superimpose() returns it: a translation, a rotation
\* and a second translation, applied in this order
ApplyT(transformation, v) ==
    VAdd(Rotate(transformation[2], VAdd(v, transformation[1])),
         transformation[3])

\* superimpose.superimpose_apply(atoms, transformation)
superimpose_apply(atoms, transformation) ==
    [i \in 1..Len(atoms) |->
        [atoms[i] EXCEPT !.coord = ApplyT(transformation, atoms[i].coord)]]

(***************************************************************************)
(* Input structures.  A structure is a sequence of residues; a residue is  *)
(* built from a template (the atoms a structure file would list for it, in *)
(* the template's order), placed in space by a rotation and an origin.     *)
(*   kind "complete"  : a phosphorus atom and every template atom          *)
(*   kind "hydrogens" : the same, and the residue's polar hydrogens        *)
(*   kind "dual"      : the same, and the anchor atom under both names     *)
(*   kind "partial"   : a phosphorus atom and the first natoms template    *)
(*                      atoms                                              *)
(*   kind "noanchor"  : a phosphorus atom and every template atom but the  *)
(*                      anchor atom                                        *)
(*   kind "undefined" : as "complete", with the residue ID -1 of a residue *)
(*                      whose ID the file leaves undefined                 *)
(***************************************************************************)
Res(res_name, tmpl, naming, kind, natoms, rot, origin) ==
    [res_name |-> res_name, tmpl |-> tmpl, naming |-> naming, kind |-> kind,
     natoms |-> natoms, rot |-> rot, origin |-> origin]

ResidueMenu ==
    { Res("A", "A", 2, "complete", 11, RotI, <<0, 0, 0>>),
      Res("A", "A", 1, "hydrogens", 11, RotI, <<0, 0, 0>>),
      Res("DA", "A", 1, "dual", 11, RotI, <<0, 0, 0>>),
      Res("A", "A", 2, "partial", 4, RotI, <<0, 0, 0>>),
      Res("A", "A", 2, "partial", 2, RotI, <<0, 0, 0>>),
      Res("PSU", "U", 2, "complete", 9, RotX, <<0, 0, 0>>),
      Res("DT", "T", 2, "complete", 10, RotX, <<0, 0, 0>>),
      Res("DT", "T", 1, "hydrogens", 10, RotX, <<0, 0, 0>>),
      Res("DT", "T", 2, "complete", 10, RotX, <<3000, 0, 0>>),
      Res("DT", "T", 2, "complete", 10, RotX, <<0, 0, 2600>>),
      Res("DT", "T", 2, "complete", 10, RotX, <<0, -2000, 0>>),
      Res("DT", "T", 2, "complete", 10, RotX, <<0, 20000, 0>>),
      Res("A", "A", 2, "complete", 11, RotI, <<0, 9000, 0>>),
      Res("A", "A", 2, "complete", 11, RotI, <<0, 15000, 0>>),
      Res("T", "T", 1, "complete", 10, RotZ, <<0, 3500, 3400>>) }

\* the values of min_atoms_per_base the model calls get_basepairs with
MinAtomsChoices == {3, 4}

TemplateOf(tmpl) ==
    CASE tmpl = "A" -> _std_adenine
      [] tmpl = "T" -> _std_thymine
      [] tmpl = "C" -> _std_cytosine
      [] tmpl = "G" -> _std_guanine
      [] tmpl = "U" -> _std_uracil

ElementOf(atom_name) ==
    CASE atom_name \in {"N1", "N2", "N3", "N4", "N6", "N7", "N9"} -> "N"
      [] atom_name \in {"O2", "O4", "O6"} -> "O"
      [] atom_name \in {"H3", "H61", "H62"} -> "H"
      [] atom_name = "P" -> "P"
      [] OTHER -> "C"

\* the polar hydrogens of a base, in the template's frame
HydrogensOf(tmpl) ==
    CASE tmpl = "A" -> <<Atom(<<1700, -90, 0>>, "H61", "A"),
                         Atom(<<2450, 1450, 0>>, "H62", "A")>>
      [] tmpl = "T" -> <<Atom(<<-402, 1412, 0>>, "H3", "T")>>
      [] OTHER -> <<>>

\* the atoms of a residue of kind d.kind, in the frame of its template, the
\* atoms of the template named as d.naming says
KindAtoms(d, bases) ==
    <<Atom(<<-6500, 8500, 1500>>, "P", d.tmpl)>> \o
    CASE d.kind = "complete" -> bases[d.naming]
      [] d.kind = "hydrogens" -> bases[d.naming] \o HydrogensOf(d.tmpl)
      [] d.kind = "dual" -> <<bases[d.naming][1], bases[3 - d.naming][1]>>
                                \o Tail(bases[d.naming])
      [] d.kind = "partial" -> SubSeq(bases[d.naming], 1, d.natoms)
      [] d.kind = "noanchor" -> Tail(bases[d.naming])
      [] d.kind = "undefined" -> bases[d.naming]

ResidueTemplateAtoms(d) == KindAtoms(d, TemplateOf(d.tmpl))

\* the atoms of residue d, the res_id-th residue of chain "A"
PlaceAtoms(atoms, d, res_id) ==
    [i \in 1..Len(atoms) |->
        [coord |-> ApplyT(<<<<0, 0, 0>>, d.rot, d.origin>>, atoms[i].coord),
         atom_name |-> atoms[i].atom_name,
         res_name |-> d.res_name,
         element |-> ElementOf(atoms[i].atom_name),
         res_id |-> res_id,
         chain_id |-> "A"]]

BuildResidue(d, res_id) ==
    PlaceAtoms(ResidueTemplateAtoms(d), d,
               IF d.kind = "undefined" THEN -1 ELSE res_id)

RECURSIVE BuildStructure(_, _)
BuildStructure(ds, first_id) ==
    IF ds = <<>> THEN <<>>
    ELSE BuildResidue(Head(ds), first_id)
             \o BuildStructure(Tail(ds), first_id + 1)

\* the structures of n residues
Structures(n) == [1..n -> ResidueMenu]

(***************************************************************************)
(* Collaborators of the core that are not part of the analysed sources:    *)
(* the cell list, the superposition, the hydrogen bond detector and numpy. *)
(***************************************************************************)
\* CellList(atoms, cutoff).create_adjacency_matrix(cutoff): entry [i][j] is
\* true when atoms i and j are at most cutoff apart (the boundary included)
create_adjacency_matrix(atoms, cutoff) ==
    [i \in 1..Len(atoms) |-> [j \in 1..Len(atoms) |->
        DistLE(atoms[i].coord, atoms[j].coord, cutoff)]]

\* the rigid motions a superposition can return
Poses ==
    {<<<<0, 0, 0>>, d.rot, d.origin>> : d \in ResidueMenu}
        \cup {<<<<0, 0, 0>>, RotS, <<0, 3000, 0>>>>}

\* superimpose(fixed, mobile) for a mobile set that fits the fixed one
\* exactly: the rigid motion that maps each mobile atom onto the fixed atom
\* at the same position of the array, and the mobile atoms moved by it
superimpose(fixed, mobile) ==
    LET t == CHOOSE q \in Poses :
                 \A i \in 1..Len(mobile) :
                     ApplyT(q, mobile[i].coord) = fixed[i].coord
    IN  <<superimpose_apply(mobile, t), t>>

\* util.norm_vector(v) for a vector along a coordinate axis
norm_vector(v) ==
    [k \in 1..3 |-> IF v[k] > 0 THEN 1 ELSE IF v[k] < 0 THEN -1 ELSE 0]

\* np.linalg.solve(m, b) for a matrix m with orthonormal columns: the
\* coefficients of b in the basis of the columns
solve(m, b) == <<dot(m[1], b), dot(m[2], b), dot(m[3], b)>>

\* np.arccos(c) >= 115 degrees, for the cosine c of two unit axis vectors
\* (cos 115 = -0.42262)
ArccosGE115(c) == c * 100000 <= -42262

\* np.arccos(c) <= 23 degrees (cos 23 = 0.92050)
ArccosLE23(c) == c * 100000 >= 92050

\* np.arccos(np.dot(z, v / |v|)) <= 40 degrees for a unit vector z:
\* dot(z, v) >= |v| cos 40, compared as squares (cos^2 40 = 0.5868); the
\* quotient and remainder keep the products inside the integer range
ArccosLE40(z, v) ==
    LET w == dot(z, v)
        n2 == dot(v, v)
        d == w * w - 5868 * (n2 \div 10000)
    IN  /\ n2 > 0
        /\ w >= 0
        /\ \/ d >= 5868
           \/ d >= 0 /\ 10000 * d >= 5868 * (n2 % 10000)

\* the angle donor-hydrogen-acceptor is at least 120 degrees (cosine at most
\* -0.5), computed at a resolution of 0.01 Angstrom
AngleGE120(donor, hydrogen, acceptor) ==
    LET u == [k \in 1..3 |-> (donor[k] - hydrogen[k]) \div 10]
        v == [k \in 1..3 |-> (acceptor[k] - hydrogen[k]) \div 10]
    IN  /\ dot(u, v) <= 0
        /\ dot(u, v) * dot(u, v) >= (dot(u, u) * dot(v, v)) \div 4

\* hbond.hbond(atoms, all, all): the triplets (donor, hydrogen, acceptor) of
\* atom positions with the hydrogen bonded to the donor (at most 1.2 apart),
\* an N or O acceptor at most 2.5 from the hydrogen, and an angle of at
\* least 120 degrees
hbond(atoms) ==
    {t \in {i \in 1..Len(atoms) : atoms[i].element \in {"N", "O"}}
              \X {i \in 1..Len(atoms) : atoms[i].element = "H"}
              \X {i \in 1..Len(atoms) : atoms[i].element \in {"N", "O"}} :
        /\ t[1] # t[3]
        /\ DistLE(atoms[t[1]].coord, atoms[t[2]].coord, 1200)
        /\ DistLE(atoms[t[3]].coord, atoms[t[2]].coord, 2500)
        /\ AngleGE120(atoms[t[1]].coord, atoms[t[2]].coord,
                      atoms[t[3]].coord)}

(***************************************************************************)
(* Filters.                                                                *)
(***************************************************************************)
filter_nucleotides(array) ==
    [i \in 1..Len(array) |-> array[i].res_name \in _nucleotide_list]

\* the filter without the test of the residue ID
_filter_atom_typeAnyId(atom_array, names) ==
    [i \in 1..Len(atom_array) |-> atom_array[i].atom_name \in names]

_filter_atom_type(atom_array, names) ==
    [i \in 1..Len(atom_array) |->
        atom_array[i].atom_name \in names /\ atom_array[i].res_id # -1]

_filter_residues(atom_array, res_ids, chain_id) ==
    [i \in 1..Len(atom_array) |->
        atom_array[i].res_id = res_ids /\ atom_array[i].chain_id = chain_id]

MaskAnd(m1, m2) == [i \in 1..Len(m1) |-> m1[i] /\ m2[i]]

\* np.sum(np.in1d(a.atom_name, b.atom_name))
in1d(a, b) == [i \in 1..Len(a) |-> a[i].atom_name \in atom_names(b)]

CountTrue(mask) == Cardinality({i \in 1..Len(mask) : mask[i]})

(***************************************************************************)
(* _match_base.  An operation either returns a value or raises.            *)
(***************************************************************************)
Raise(type, message) == [kind |-> "raise", type |-> type, message |-> message]

Return(value) == [kind |-> "return", value |-> value]

SupportedNames ==
    _adenine_containing_nucleotides \cup _thymine_containing_nucleotides
        \cup _cytosine_containing_nucleotides
        \cup _guanine_containing_nucleotides
        \cup _uracil_containing_nucleotides

\* the module-level template objects as they are now: per base the naming
\* variants (.bases), the ring centers and the masks
VARIABLE templates

\* the template objects as lines 247 to 256 set them when the module loads
LoadedTemplates ==
    [adenine |-> [bases |-> _std_adenine,
                  ring_centers |-> _std_adenine_ring_centers,
                  hbond_masks |-> _std_adenine_hbond_masks],
     cytosine |-> [bases |-> _std_cytosine,
                   ring_centers |-> _std_cytosine_ring_centers,
                   hbond_masks |-> _std_cytosine_hbond_masks],
     guanine |-> [bases |-> _std_guanine,
                  ring_centers |-> _std_guanine_ring_centers,
                  hbond_masks |-> _std_guanine_hbond_masks],
     thymine |-> [bases |-> _std_thymine,
                  ring_centers |-> _std_thymine_ring_centers,
                  hbond_masks |-> _std_thymine_hbond_masks],
     uracil |-> [bases |-> _std_uracil,
                 ring_centers |-> _std_uracil_ring_centers,
                 hbond_masks |-> _std_uracil_hbond_masks]]

\* the base whose template the if/elif chain of lines 437 to 456 selects
StdName(res_name) ==
    CASE res_name \in _adenine_containing_nucleotides -> "adenine"
      [] res_name \in _thymine_containing_nucleotides -> "thymine"
      [] res_name \in _cytosine_containing_nucleotides -> "cytosine"
      [] res_name \in _guanine_containing_nucleotides -> "guanine"
      [] res_name \in _uracil_containing_nucleotides -> "uracil"

\* the template data selected by the residue name (lines 437 to 456): the
\* naming variants (.bases), the ring centers and the masks of one base
StdOf(res_name) == templates[StdName(res_name)]

\* the PDB v3 variant taken also on equal counts
SelectNamingAtLeast(std_bases, base) ==
    IF CountTrue(in1d(std_bases[2], base)) >= CountTrue(in1d(std_bases[1], base))
    THEN std_bases[2]
    ELSE std_bases[1]

\* the naming variant of the template: PDB v3 when more of its names occur
SelectNaming(std_bases, base) ==
    IF CountTrue(in1d(std_bases[2], base)) > CountTrue(in1d(std_bases[1], base))
    THEN std_bases[2]
    ELSE std_bases[1]

\* the matched atoms of the template, superimposed onto the residue
Fit(base, std_base) ==
    superimpose(MaskSel(base, in1d(base, std_base)),
                MaskSel(std_base, in1d(std_base, base)))

\* np.vstack as if its result were a view of the arrays stacked
vstackView(a, b) == [array |-> a \o b, shares |-> TRUE]

\* np.vstack((vectors, std_ring_centers)) (line 470): a new array that
\* shares no memory with the arrays stacked
vstack(a, b) == [array |-> a \o b, shares |-> FALSE]

\* the vectors moved by the transformation (lines 479 to 481)
MoveVectors(vectors, transformation) ==
    [i \in 1..Len(vectors) |-> ApplyT(transformation, vectors[i])]

\* the axes taken relative to the origin and normalized (lines 483 to 485)
NormalizeAxes(moved) ==
    [i \in 1..Len(moved) |->
        IF i \in 2..4 THEN norm_vector(VSub(moved[i], moved[1]))
        ELSE moved[i]]

\* the origin, the axes and the ring centers moved onto the residue
TransformVectors(std_ring_centers, transformation) ==
    NormalizeAxes(
        MoveVectors(vstack(<<<<0, 0, 0>>, <<1, 0, 0>>, <<0, 1, 0>>,
                             <<0, 0, 1>>>>, std_ring_centers).array,
                    transformation))

\* the atoms of the base: not the sugar and the phosphate, but hydrogens
BaseAtomMask(base, std_base) ==
    [i \in 1..Len(base) |->
        ~ (base[i].atom_name \notin atom_names(std_base)
           /\ base[i].element # "H")]

ContainsHydrogens(return_base) ==
    \E i \in 1..Len(return_base) : return_base[i].element = "H"

\* the donor and the acceptor mask over the atoms of a complete base
ReturnHbondMasks(return_base, std_base, std_hbond_masks) ==
    [i \in 1..2 |->
        _filter_atom_type(return_base,
                          atom_names(MaskSel(std_base, std_hbond_masks[i])))]

\* the branch for a complete base (lines 507 to 533)
CompleteBase(return_base, std_base, std_hbond_masks, vectors) ==
    Return(<<return_base,
             ReturnHbondMasks(return_base, std_base, std_hbond_masks),
             ContainsHydrogens(return_base),
             vectors>>)

\* the completeness of the base (lines 491 to 533)
Completeness(base, min_atoms_per_base, std, std_base, fit) ==
    IF Len(std_base) - Len(fit[1]) > 0 /\ Len(fit[1]) >= min_atoms_per_base
    THEN Raise("IncompleteStructureWarning",
               "Base is not complete. Attempting to emulate with std_base.")
    ELSE IF Len(std_base) - Len(fit[1]) > 0
    THEN Raise("IncompleteStructureWarning",
               "Base is smaller than 3 atoms. Unable to check for basepair.")
    ELSE CompleteBase(MaskSel(base, BaseAtomMask(base, std_base)), std_base,
                      std.hbond_masks,
                      TransformVectors(std.ring_centers, fit[2]))

\* lines 462 to 533, for the naming variant std_base of the template
MatchNamed(base, min_atoms_per_base, std, std_base) ==
    Completeness(base, min_atoms_per_base, std, std_base,
                 Fit(base, std_base))

\* lines 462 to 533, for the template data std
MatchStd(base, min_atoms_per_base, std) ==
    MatchNamed(base, min_atoms_per_base, std, SelectNaming(std.bases, base))

\* the template objects after _match_base(base, ...): the statements that
\* write in place (vectors += trans1, vectors += trans2 and norm_vector,
\* lines 478 to 485) write the array `vectors`, which reaches the ring
\* centers only if it shares their memory; the fancy-indexed template of
\* line 475 is a copy, and the masks are only read
TemplatesAfterMatch(tpl, base) ==
    IF base[1].res_name \notin SupportedNames
    THEN tpl
    ELSE IF vstack(<<>>, tpl[StdName(base[1].res_name)].ring_centers).shares
    THEN [tpl EXCEPT ![StdName(base[1].res_name)].ring_centers =
             MoveVectors(@, Fit(base,
                                SelectNaming(StdOf(base[1].res_name).bases,
                                             base))[2])]
    ELSE tpl

_match_base(base, min_atoms_per_base) ==
    IF base[1].res_name \notin SupportedNames
    THEN Raise("UnexpectedStructureWarning",
               "Base Type not supported. Unable to check for basepair")
    ELSE MatchStd(base, min_atoms_per_base, StdOf(base[1].res_name))

(***************************************************************************)
(* The criteria of _check_dssr_criteria.  transformed_std_vectors[i] holds *)
(* the origin, the x, y and z axes and the ring centers of base i.         *)
(***************************************************************************)
\* the acceptor atoms selected by the acceptor mask of the donor base
_check_hbondsDonorMasks(bases, hbond_masks) ==
    \E d \in 1..2 :
        LET a == 3 - d
            donor_base == MaskSel(bases[d], hbond_masks[d][1])
            acceptor_base == MaskSel(bases[a], hbond_masks[d][2])
        IN  \E i \in 1..Len(donor_base), j \in 1..Len(acceptor_base) :
                DistLE(acceptor_base[j].coord, donor_base[i].coord, 4000)

_check_hbonds(bases, hbond_masks) ==
    \E d \in 1..2 :
        LET a == 3 - d
            donor_base == MaskSel(bases[d], hbond_masks[d][1])
            acceptor_base == MaskSel(bases[a], hbond_masks[a][2])
        IN  \E i \in 1..Len(donor_base), j \in 1..Len(acceptor_base) :
                DistLE(acceptor_base[j].coord, donor_base[i].coord, 4000)

\* the distance vectors taken from the ring center of base 2 to that of
\* base 1
_check_base_stackingReversed(transformed_vectors) ==
    LET centers1 == SubSeq(transformed_vectors[1], 5,
                           Len(transformed_vectors[1]))
        centers2 == SubSeq(transformed_vectors[2], 5,
                           Len(transformed_vectors[2]))
        close == {c \in (1..Len(centers1)) \X (1..Len(centers2)) :
                     DistLE(centers1[c[1]], centers2[c[2]], 4500)}
        normalized_distance_vectors ==
            {VSub(centers1[c[1]], centers2[c[2]]) : c \in close}
    IN  IF close = {} THEN FALSE
        ELSE IF ~ ArccosLE23(dot(transformed_vectors[1][4],
                                 transformed_vectors[2][4]))
        THEN FALSE
        ELSE \E k \in 1..2 : \E v \in normalized_distance_vectors :
                 ArccosLE40(transformed_vectors[k][4], v)

_check_base_stacking(transformed_vectors) ==
    LET centers1 == SubSeq(transformed_vectors[1], 5,
                           Len(transformed_vectors[1]))
        centers2 == SubSeq(transformed_vectors[2], 5,
                           Len(transformed_vectors[2]))
        close == {c \in (1..Len(centers1)) \X (1..Len(centers2)) :
                     DistLE(centers1[c[1]], centers2[c[2]], 4500)}
        normalized_distance_vectors ==
            {VSub(centers2[c[2]], centers1[c[1]]) : c \in close}
    IN  IF close = {} THEN FALSE
        ELSE IF ~ ArccosLE23(dot(transformed_vectors[1][4],
                                 transformed_vectors[2][4]))
        THEN FALSE
        ELSE \E k \in 1..2 : \E v \in normalized_distance_vectors :
                 ArccosLE40(transformed_vectors[k][4], v)

\* Criterion 1: distance between the origins <= 15
Criterion1(tsv) == DistLE(tsv[1][1], tsv[2][1], 15000)

\* the determinant of the matrix with the columns m[1], m[2], m[3]
det(m) ==
    m[1][1] * (m[2][2] * m[3][3] - m[2][3] * m[3][2])
        - m[2][1] * (m[1][2] * m[3][3] - m[1][3] * m[3][2])
        + m[3][1] * (m[1][2] * m[2][3] - m[1][3] * m[2][2])

\* the matrix of the linear system of criterion 2, by columns
VerticalMatrix(tsv) == <<tsv[1][2], tsv[1][3], VScale(-1, tsv[1][4])>>

\* the solution of the linear system of criterion 2
VerticalSystem(tsv) ==
    solve(VerticalMatrix(tsv), VSub(tsv[2][1], tsv[1][1]))

\* the component of the solution that the code takes as t
SolveComponent(solution) == solution[1]

\* Criterion 2: vertical separation <= 2.5
Criterion2(tsv) ==
    LET t == SolveComponent(VerticalSystem(tsv))
        intercept == VAdd(tsv[2][1], VScale(t, tsv[1][4]))
    IN  DistLE(tsv[2][1], intercept, 2500)

\* criterion 3 as its comment words it: an angle of at most 65 degrees
\* (cos 65 = 0.42262)
Criterion3AtMost65(tsv) == dot(tsv[1][4], tsv[2][4]) * 100000 >= 42262

\* Criterion 3: angle between the normal vectors
Criterion3(tsv) == ArccosGE115(dot(tsv[1][4], tsv[2][4]))

\* Criterion 4: absence of stacking
Criterion4(tsv) == ~ _check_base_stacking(tsv)

\* criterion 5 with np.any in the place of np.all
Criterion5AnyHydrogens(transformed_bases, hbond_masks, contains_hydrogens) ==
    IF contains_hydrogens[1] \/ contains_hydrogens[2]
    THEN hbond(transformed_bases[1] \o transformed_bases[2]) # {}
    ELSE _check_hbonds(transformed_bases, hbond_masks)

\* Criterion 5: presence of at least one hydrogen bond
Criterion5(transformed_bases, hbond_masks, contains_hydrogens) ==
    IF contains_hydrogens[1] /\ contains_hydrogens[2]
    THEN hbond(transformed_bases[1] \o transformed_bases[2]) # {}
    ELSE _check_hbonds(transformed_bases, hbond_masks)

\* _check_dssr_criteria(basepair, min_atoms_per_base) as one function of
\* its arguments (lines 286 to 368)
_check_dssr_criteria(basepair, min_atoms) ==
    LET m1 == _match_base(basepair[1], min_atoms)
        m2 == _match_base(basepair[2], min_atoms)
        tsv == <<m1.value[4], m2.value[4]>>
    IN  IF m1.kind = "raise" THEN m1
        ELSE IF m2.kind = "raise" THEN m2
        ELSE IF ~ Criterion1(tsv) THEN Return(FALSE)
        ELSE IF det(VerticalMatrix(tsv)) = 0
        THEN Raise("LinAlgError", "Singular matrix")
        ELSE IF ~ Criterion2(tsv) THEN Return(FALSE)
        ELSE IF ~ Criterion3(tsv) THEN Return(FALSE)
        ELSE IF ~ Criterion4(tsv) THEN Return(FALSE)
        ELSE Return(Criterion5(<<m1.value[1], m2.value[1]>>,
                               <<m1.value[2], m2.value[2]>>,
                               <<m1.value[3], m2.value[3]>>))

(***************************************************************************)
(* _get_proximate_basepair_candidates.                                     *)
(***************************************************************************)
max_cutoff == 15000

min_cutoff == 9000

Range(seq) == {seq[i] : i \in 1..Len(seq)}

SelectAnchors(atom_array) ==
    MaskSel(atom_array,
            MaskAnd(filter_nucleotides(atom_array),
                    _filter_atom_type(atom_array, {"C1'", "C1*"})))

\* line 552 with the tuple tested in the order in which it is appended
RecordedSameOrder(candidate, partner, basepair_candidates) ==
    (candidate \o partner) \in Range(basepair_candidates)

\* whether the pair has been recorded: the test of line 552
Recorded(candidate, partner, basepair_candidates) ==
    (partner \o candidate) \in Range(basepair_candidates)

\* the loop body with ">=" for ">" in the test against min_cutoff
EnumerateEntryMinInclusive(c1sugars, adjacency_matrix, basepair_candidates, ix, iy) ==
    IF adjacency_matrix[ix][iy]
    THEN LET candidate == <<c1sugars[ix].res_id, c1sugars[ix].chain_id>>
             partner == <<c1sugars[iy].res_id, c1sugars[iy].chain_id>>
         IN  IF /\ distance2(c1sugars[ix].coord, c1sugars[iy].coord)
                       >= min_cutoff * min_cutoff
                /\ ~ Recorded(candidate, partner, basepair_candidates)
             THEN Append(basepair_candidates, candidate \o partner)
             ELSE basepair_candidates
    ELSE basepair_candidates

\* the body of the loop over the adjacency matrix, for the entry [ix][iy]
EnumerateEntry(c1sugars, adjacency_matrix, basepair_candidates, ix, iy) ==
    IF adjacency_matrix[ix][iy]
    THEN LET candidate == <<c1sugars[ix].res_id, c1sugars[ix].chain_id>>
             partner == <<c1sugars[iy].res_id, c1sugars[iy].chain_id>>
         IN  IF /\ DistGT(c1sugars[ix].coord, c1sugars[iy].coord, min_cutoff)
                /\ ~ Recorded(candidate, partner, basepair_candidates)
             THEN Append(basepair_candidates, candidate \o partner)
             ELSE basepair_candidates
    ELSE basepair_candidates

(***************************************************************************)
(* The state of a sequence of get_basepairs calls on one structure.        *)
(***************************************************************************)
VARIABLES
    structure,            \* the residues the input structure was built from
    atom_array,           \* the input structure
    min_atoms_per_base,   \* the argument of get_basepairs
    pc,                   \* the position in get_basepairs
    run,                  \* the number of calls started
    c1sugars,             \* the locals of the candidate finder
    adjacency_matrix,
    basepair_candidates,  \* the list built by the candidate finder
    ix, iy,               \* the position in the adjacency matrix
    basepairs,            \* the list of accepted candidates
    order,                \* the order in which the loop takes the candidates
    ci,                   \* the position in that order
    bi,                   \* the base _check_dssr_criteria matches next
    transformed_bases,    \* the locals of _check_dssr_criteria, per base
    hbond_masks,
    contains_hydrogens,
    transformed_std_vectors,
    exception,            \* the exception that ended the call, if any
    verdicts,             \* what _check_dssr_criteria returned, per candidate
    results,              \* the outcome of every finished call
    call,                 \* a function called on its own, with its arguments
    rets,                 \* what the calls of that function gave
    file                  \* a DBNFile object: its lines and its _entries

input == <<structure, atom_array, min_atoms_per_base>>

finder == <<c1sugars, adjacency_matrix, basepair_candidates, ix, iy>>

locals == <<transformed_bases, hbond_masks, contains_hydrogens,
            transformed_std_vectors>>

\* the function called on its own
single == <<call, rets, file>>

vars == <<input, templates, pc, run, finder, basepairs, order, ci, bi, locals,
          exception, verdicts, results, single>>

None == "None"

NoException == [type |-> "", message |-> ""]

\* no function is called on its own
NoCall == [fn |-> "none"]

\* no DBNFile object exists
NoFile == [lines |-> <<>>, _entries |-> <<>>]

\* base k of the candidate under evaluation: lines 271 to 278
BaseOf(k) ==
    MaskSel(atom_array,
            _filter_residues(atom_array,
                             basepair_candidates[order[ci]][2 * k - 1],
                             basepair_candidates[order[ci]][2 * k]))

\* the locals of _check_dssr_criteria at its entry (lines 287 to 297)
FreshLocals ==
    /\ transformed_bases' = <<None, None>>
    /\ hbond_masks' = <<None, None>>
    /\ contains_hydrogens' = <<FALSE, FALSE>>
    /\ transformed_std_vectors' = <<None, None>>

\* the state before the first call of get_basepairs on the structure built
\* from the residues s, with the argument m
StartWith(s, m) ==
    /\ structure = s
    /\ atom_array = BuildStructure(s, 1)
    /\ min_atoms_per_base = m
    /\ templates = LoadedTemplates
    /\ pc = "idle"
    /\ run = 0
    /\ c1sugars = <<>>
    /\ adjacency_matrix = <<>>
    /\ basepair_candidates = <<>>
    /\ ix = 1
    /\ iy = 1
    /\ basepairs = <<>>
    /\ order = <<>>
    /\ ci = 1
    /\ bi = 1
    /\ transformed_bases = <<None, None>>
    /\ hbond_masks = <<None, None>>
    /\ contains_hydrogens = <<FALSE, FALSE>>
    /\ transformed_std_vectors = <<None, None>>
    /\ exception = NoException
    /\ verdicts = <<>>
    /\ results = <<>>

Init ==
    /\ \E n \in 1..MaxRes : \E s \in Structures(n) :
           \E m \in MinAtomsChoices : StartWith(s, m)
    /\ call = NoCall
    /\ rets = <<>>
    /\ file = NoFile

\* a list that outlives the call (a module-level or default-argument list)
KeepBasepairs(old) == old

\* basepairs = [] (line 268)
NewBasepairs(old) == <<>>

\* basepair_candidates = [] (line 546)
NewCandidates(old) == <<>>

\* a call of get_basepairs(atom_array, min_atoms_per_base)
CallGetBasepairs ==
    /\ pc \in {"idle", "returned", "raised"}
    /\ run < MaxRuns
    /\ run' = run + 1
    /\ pc' = "enumerate"
    /\ c1sugars' = SelectAnchors(atom_array)
    /\ adjacency_matrix' = create_adjacency_matrix(c1sugars', max_cutoff)
    /\ basepair_candidates' = NewCandidates(basepair_candidates)
    /\ basepairs' = NewBasepairs(basepairs)
    /\ ix' = 1
    /\ iy' = 1
    /\ ci' = 1
    /\ bi' = 1
    /\ exception' = NoException
    /\ verdicts' = <<>>
    /\ order' = <<>>
    /\ FreshLocals
    /\ UNCHANGED <<input, single, templates, results>>

\* one iteration of the loop over np.ndindex(adjacency_matrix.shape)
EnumerateStep ==
    /\ pc = "enumerate"
    /\ ix <= Len(c1sugars)
    /\ basepair_candidates' =
           EnumerateEntry(c1sugars, adjacency_matrix, basepair_candidates,
                          ix, iy)
    /\ IF iy < Len(c1sugars)
       THEN ix' = ix /\ iy' = iy + 1
       ELSE ix' = ix + 1 /\ iy' = 1
    /\ UNCHANGED <<input, single, templates, order, pc, run, c1sugars,
                   adjacency_matrix, basepairs, ci, bi, locals, exception,
                   verdicts, results>>

\* the list handed out while the loop over the adjacency matrix still runs
EnumerateReturnEarly ==
    /\ pc = "enumerate"
    /\ pc' = "loop"
    /\ order' = [i \in 1..Len(basepair_candidates) |-> i]
    /\ ci' = 1
    /\ c1sugars' = <<>>
    /\ adjacency_matrix' = <<>>
    /\ UNCHANGED <<input, single, templates, run, basepair_candidates, ix,
                   iy, basepairs, bi, locals, exception, verdicts, results>>

\* return basepair_candidates (line 555)
EnumerateReturn ==
    /\ pc = "enumerate"
    /\ ix > Len(c1sugars)
    /\ pc' = "loop"
    /\ order' = [i \in 1..Len(basepair_candidates) |-> i]
    /\ ci' = 1
    /\ c1sugars' = <<>>
    /\ adjacency_matrix' = <<>>
    /\ UNCHANGED <<input, single, templates, run, basepair_candidates, ix,
                   iy, basepairs, bi, locals, exception, verdicts, results>>

\* the next candidate of the loop of line 270 enters _check_dssr_criteria
NextCandidate ==
    /\ pc = "loop"
    /\ ci <= Len(basepair_candidates)
    /\ pc' = "match"
    /\ bi' = 1
    /\ FreshLocals
    /\ UNCHANGED <<input, single, templates, order, run, finder, basepairs,
                   ci, exception, verdicts, results>>

\* return basepairs (line 283)
ReturnBasepairs ==
    /\ pc = "loop"
    /\ ci > Len(basepair_candidates)
    /\ pc' = "returned"
    /\ results' = Append(results, [status |-> "returned",
                                   basepairs |-> basepairs])
    /\ UNCHANGED <<input, single, templates, order, run, finder, basepairs,
                   ci, bi, locals, exception, verdicts>>

\* a rejection that leaves the loop over the candidates
RejectAndStop(stage) ==
    /\ pc' = "loop"
    /\ ci' = Len(basepair_candidates) + 1
    /\ verdicts' = Append(verdicts, [result |-> FALSE, at |-> stage])
    /\ UNCHANGED <<input, single, templates, order, run, finder, basepairs,
                   bi, locals, exception, results>>

\* _check_dssr_criteria returns False: the candidate is not appended
Reject(stage) ==
    /\ pc' = "loop"
    /\ ci' = ci + 1
    /\ verdicts' = Append(verdicts, [result |-> FALSE, at |-> stage])
    /\ UNCHANGED <<input, single, templates, order, run, finder, basepairs,
                   bi, locals, exception, results>>

\* the evaluation goes on with the next criterion
Proceed(stage) ==
    /\ pc' = stage
    /\ UNCHANGED <<input, single, templates, order, run, finder, basepairs,
                   ci, bi, locals, exception, verdicts, results>>

\* _match_base for base bi (lines 300 to 307); an exception it raises is
\* caught nowhere and ends the call of get_basepairs
MatchBase ==
    /\ pc = "match"
    /\ templates' = TemplatesAfterMatch(templates, BaseOf(bi))
    /\ \E r \in {_match_base(BaseOf(bi), min_atoms_per_base)} :
           IF r.kind = "raise"
           THEN /\ pc' = "raised"
                /\ exception' = [type |-> r.type, message |-> r.message]
                /\ results' = Append(results, [status |-> "raised",
                                               basepairs |-> <<>>])
                /\ UNCHANGED <<input, single, order, run, finder, basepairs,
                               ci, bi, locals, verdicts>>
           ELSE /\ transformed_bases' =
                       [transformed_bases EXCEPT ![bi] = r.value[1]]
                /\ hbond_masks' = [hbond_masks EXCEPT ![bi] = r.value[2]]
                /\ contains_hydrogens' =
                       [contains_hydrogens EXCEPT ![bi] = r.value[3]]
                /\ transformed_std_vectors' =
                       [transformed_std_vectors EXCEPT ![bi] = r.value[4]]
                /\ IF bi = 1 THEN pc' = "match" /\ bi' = 2
                             ELSE pc' = "crit1" /\ bi' = bi
                /\ UNCHANGED <<input, single, order, run, finder, basepairs,
                               ci, exception, verdicts, results>>

\* criterion 1 without its return False
CheckCriterion1Continue ==
    /\ pc = "crit1"
    /\ Proceed("crit2")

CheckCriterion1 ==
    /\ pc = "crit1"
    /\ IF Criterion1(transformed_std_vectors)
       THEN Proceed("crit2") ELSE Reject("crit1")

\* np.linalg.solve raises LinAlgError for a singular matrix; nothing in
\* _check_dssr_criteria or get_basepairs catches it
CheckCriterion2 ==
    /\ pc = "crit2"
    /\ IF det(VerticalMatrix(transformed_std_vectors)) = 0
       THEN /\ pc' = "raised"
            /\ exception' = [type |-> "LinAlgError",
                             message |-> "Singular matrix"]
            /\ results' = Append(results, [status |-> "raised",
                                           basepairs |-> <<>>])
            /\ UNCHANGED <<input, single, templates, order, run, finder,
                           basepairs, ci, bi, locals, verdicts>>
       ELSE IF Criterion2(transformed_std_vectors)
       THEN Proceed("crit3") ELSE Reject("crit2")

\* criterion 3 without its return False
CheckCriterion3Continue ==
    /\ pc = "crit3"
    /\ Proceed("crit4")

CheckCriterion3 ==
    /\ pc = "crit3"
    /\ IF Criterion3(transformed_std_vectors)
       THEN Proceed("crit4") ELSE Reject("crit3")

CheckCriterion4 ==
    /\ pc = "crit4"
    /\ IF Criterion4(transformed_std_vectors)
       THEN Proceed("crit5") ELSE Reject("crit4")

\* the last criterion, with the accepted candidate put at the front of the
\* list
CheckCriterion5Prepend ==
    /\ pc = "crit5"
    /\ IF Criterion5(transformed_bases, hbond_masks, contains_hydrogens)
       THEN /\ pc' = "loop"
            /\ ci' = ci + 1
            /\ basepairs' = <<basepair_candidates[order[ci]]>> \o basepairs
            /\ verdicts' = Append(verdicts, [result |-> TRUE, at |-> "crit5"])
            /\ UNCHANGED <<input, single, templates, order, run, finder, bi,
                           locals, exception, results>>
       ELSE Reject("crit5")

\* the last criterion; when it holds _check_dssr_criteria returns True and
\* get_basepairs appends the candidate (lines 280 and 281)
CheckCriterion5 ==
    /\ pc = "crit5"
    /\ IF Criterion5(transformed_bases, hbond_masks, contains_hydrogens)
       THEN /\ pc' = "loop"
            /\ ci' = ci + 1
            /\ basepairs' = Append(basepairs, basepair_candidates[order[ci]])
            /\ verdicts' = Append(verdicts, [result |-> TRUE, at |-> "crit5"])
            /\ UNCHANGED <<input, single, templates, order, run, finder, bi,
                           locals, exception, results>>
       ELSE Reject("crit5")

Next ==
    \/ CallGetBasepairs
    \/ EnumerateStep
    \/ EnumerateReturn
    \/ NextCandidate
    \/ ReturnBasepairs
    \/ MatchBase
    \/ CheckCriterion1
    \/ CheckCriterion2
    \/ CheckCriterion3
    \/ CheckCriterion4
    \/ CheckCriterion5

Spec == Init /\ [][Next]_vars

(***************************************************************************)
(* get_basepairs with the loop of line 270 taking the candidates in any    *)
(* order: the evaluation of the candidates as independent tasks.           *)
(***************************************************************************)
MaxOrderRes == 3

OrderMenu ==
    { Res("A", "A", 2, "complete", 11, RotI, <<0, 0, 0>>),
      Res("A", "A", 2, "partial", 2, RotI, <<0, 0, 0>>),
      Res("DT", "T", 2, "complete", 10, RotX, <<0, 0, 0>>),
      Res("DT", "T", 2, "complete", 10, RotX, <<0, -2000, 0>>) }

OrderStructures(n) == [1..n -> OrderMenu]

Orders(n) ==
    {f \in [1..n -> 1..n] : \A i \in 1..n : \A j \in 1..n :
                                i # j => f[i] # f[j]}

\* the finder returns; the candidates will be taken in some order
EnumerateReturnAnyOrder ==
    /\ pc = "enumerate"
    /\ ix > Len(c1sugars)
    /\ pc' = "loop"
    /\ order' \in Orders(Len(basepair_candidates))
    /\ ci' = 1
    /\ c1sugars' = <<>>
    /\ adjacency_matrix' = <<>>
    /\ UNCHANGED <<input, single, templates, run, basepair_candidates, ix, iy,
                   basepairs, bi, locals, exception, verdicts, results>>

InitAnyOrder ==
    /\ \E n \in 1..MaxOrderRes : \E s \in OrderStructures(n) :
           \E m \in MinAtomsChoices : StartWith(s, m)
    /\ call = NoCall
    /\ rets = <<>>
    /\ file = NoFile

\* the first call of get_basepairs on the structure
CallGetBasepairsFirst ==
    /\ run = 0
    /\ CallGetBasepairs

NextAnyOrder ==
    \/ CallGetBasepairsFirst
    \/ EnumerateStep
    \/ EnumerateReturnAnyOrder
    \/ NextCandidate
    \/ ReturnBasepairs
    \/ MatchBase
    \/ CheckCriterion1
    \/ CheckCriterion2
    \/ CheckCriterion3
    \/ CheckCriterion4
    \/ CheckCriterion5

SpecAnyOrder == InitAnyOrder /\ [][NextAnyOrder]_vars

(***************************************************************************)
(* get_basepairs on structures with residues that have no anchor atom: a   *)
(* residue that is no nucleotide, a nucleotide without the atom C1', and a *)
(* nucleotide with the undefined residue ID.                               *)
(***************************************************************************)
MaxAnchorRes == 3

AnchorMenu ==
    { Res("A", "A", 2, "complete", 11, RotI, <<0, 0, 0>>),
      Res("DT", "T", 2, "complete", 10, RotX, <<0, 0, 0>>),
      Res("DT", "T", 2, "complete", 10, RotX, <<3000, 0, 0>>),
      Res("ALA", "T", 2, "complete", 10, RotX, <<0, 0, 0>>),
      Res("DT", "T", 2, "noanchor", 10, RotX, <<0, 0, 0>>),
      Res("DT", "T", 2, "undefined", 10, RotX, <<0, 0, 0>>) }

InitAnchors ==
    /\ \E n \in 1..MaxAnchorRes : \E s \in [1..n -> AnchorMenu] :
           \E m \in MinAtomsChoices : StartWith(s, m)
    /\ call = NoCall
    /\ rets = <<>>
    /\ file = NoFile

SpecAnchors == InitAnchors /\ [][Next]_vars

(***************************************************************************)
(* filter.py: the altloc filters.  atoms is a sequence of records with the *)
(* field res_id; occupancies are in hundredths.                            *)
(***************************************************************************)
\* residues.get_residue_starts(atoms, add_exclusive_stop=True): the
\* positions at which a new residue starts, and the position after the end
get_residue_starts(atoms) ==
    SelectSeq([i \in 1..Len(atoms) |-> i],
              LAMBDA i : i = 1 \/ atoms[i].res_id # atoms[i - 1].res_id)
        \o <<Len(atoms) + 1>>

\* the letters among the altloc IDs of the model
Letters == <<"A", "B">>

\* str.isalpha
isalpha(l) == \E k \in 1..Len(Letters) : Letters[k] = l

\* np.in1d(altloc_ids, [".", "?", " ", ""])
NoAltlocFilter(altloc_ids) ==
    [i \in 1..Len(altloc_ids) |-> altloc_ids[i] \in {".", "?", " ", ""}]

\* the letter IDs taken from the whole array
LetterAltlocIdsOfArray(altloc_ids, start, stop) ==
    SelectSeq(altloc_ids, isalpha)

\* [l for l in altloc_ids[start:stop] if l.isalpha()], for the one-based
\* positions start .. stop - 1
LetterAltlocIds(altloc_ids, start, stop) ==
    SelectSeq(SubSeq(altloc_ids, start, stop - 1), isalpha)

\* altloc_filter[start:stop] |= (altloc_ids[start:stop] == id)
OrEqual(altloc_filter, altloc_ids, start, stop, id) ==
    [i \in 1..Len(altloc_filter) |->
        IF i \in start..(stop - 1)
        THEN altloc_filter[i] \/ altloc_ids[i] = id
        ELSE altloc_filter[i]]

\* the loop over the residues of filter_first_altloc, from residue k on
RECURSIVE FirstAltlocLoop(_, _, _, _)
FirstAltlocLoop(altloc_filter, altloc_ids, residue_starts, k) ==
    IF k >= Len(residue_starts) THEN altloc_filter
    ELSE FirstAltlocLoop(
             IF Len(LetterAltlocIds(altloc_ids, residue_starts[k],
                                    residue_starts[k + 1])) > 0
             THEN OrEqual(altloc_filter, altloc_ids, residue_starts[k],
                          residue_starts[k + 1],
                          LetterAltlocIds(altloc_ids, residue_starts[k],
                                          residue_starts[k + 1])[1])
             ELSE altloc_filter,
             altloc_ids, residue_starts, k + 1)

filter_first_altloc(atoms, altloc_ids) ==
    FirstAltlocLoop(NoAltlocFilter(altloc_ids), altloc_ids,
                    get_residue_starts(atoms), 1)

\* np.sum(occupancies_in_res[altloc_ids_in_res == id]), from position k on
RECURSIVE OccupancySum(_, _, _, _)
OccupancySum(occupancies_in_res, altloc_ids_in_res, id, k) ==
    IF k > Len(altloc_ids_in_res) THEN 0
    ELSE (IF altloc_ids_in_res[k] = id THEN occupancies_in_res[k] ELSE 0)
             + OccupancySum(occupancies_in_res, altloc_ids_in_res, id, k + 1)

\* the loop `for id in set(letter_altloc_ids)`, over the IDs in the order in
\* which the set yields them
RECURSIVE HighestLoop(_, _, _, _, _)
HighestLoop(ids, occupancies_in_res, altloc_ids_in_res, highest, highest_id) ==
    IF ids = <<>> THEN highest_id
    ELSE IF OccupancySum(occupancies_in_res, altloc_ids_in_res, Head(ids), 1)
                > highest
    THEN HighestLoop(Tail(ids), occupancies_in_res, altloc_ids_in_res,
                     OccupancySum(occupancies_in_res, altloc_ids_in_res,
                                  Head(ids), 1),
                     Head(ids))
    ELSE HighestLoop(Tail(ids), occupancies_in_res, altloc_ids_in_res,
                     highest, highest_id)

\* the iteration order of a set of strings is that of their hashes, which
\* Python randomizes per process: set_order lists the letters in the order
\* of the process, a set yields its elements in that order
SetIteration(letter_altloc_ids, set_order) ==
    SelectSeq(set_order,
              LAMBDA l : \E k \in 1..Len(letter_altloc_ids) :
                             letter_altloc_ids[k] = l)

\* the loop over the residues of filter_highest_occupancy_altloc
RECURSIVE HighestAltlocLoop(_, _, _, _, _, _)
HighestAltlocLoop(altloc_filter, altloc_ids, occupancies, residue_starts, k, set_order) ==
    IF k >= Len(residue_starts) THEN altloc_filter
    ELSE HighestAltlocLoop(
             IF Len(LetterAltlocIds(altloc_ids, residue_starts[k],
                                    residue_starts[k + 1])) > 0
             THEN OrEqual(altloc_filter, altloc_ids, residue_starts[k],
                          residue_starts[k + 1],
                          HighestLoop(
                              SetIteration(
                                  LetterAltlocIds(altloc_ids,
                                                  residue_starts[k],
                                                  residue_starts[k + 1]),
                                  set_order),
                              SubSeq(occupancies, residue_starts[k],
                                     residue_starts[k + 1] - 1),
                              SubSeq(altloc_ids, residue_starts[k],
                                     residue_starts[k + 1] - 1),
                              -100, None))
             ELSE altloc_filter,
             altloc_ids, occupancies, residue_starts, k + 1, set_order)

\* filter_highest_occupancy_altloc in a process whose sets iterate in
\* set_order
filter_highest_occupancy_altloc(atoms, altloc_ids, occupancies, set_order) ==
    HighestAltlocLoop(NoAltlocFilter(altloc_ids), altloc_ids, occupancies,
                      get_residue_starts(atoms), 1, set_order)

(***************************************************************************)
(* sequence.py: Sequence._dtype.                                           *)
(***************************************************************************)
\* the body of the while loop is `i += 1` for a name i that is never bound
_dtype(alphabet_size) ==
    IF 256 ^ 1 < alphabet_size
    THEN Raise("UnboundLocalError",
               "local variable 'i' referenced before assignment")
    ELSE Return(<<"u", 1>>)

(***************************************************************************)
(* Functions called on their own: call holds the function and its          *)
(* arguments, rets what each call gave.                                    *)
(***************************************************************************)
MaxAltlocAtoms == 3

AtomsOf(res_ids) == [i \in 1..Len(res_ids) |-> [res_id |-> res_ids[i]]]

\* the calls on arrays of n atoms
FirstAltlocCalls(n) ==
    {[fn |-> "filter_first_altloc", atoms |-> AtomsOf(r), altloc_ids |-> l] :
        r \in [1..n -> {1, 2}], l \in [1..n -> {".", "A", "B", "1"}]}

HighestAltlocCalls(n) ==
    {[fn |-> "filter_highest_occupancy_altloc", atoms |-> AtomsOf(r),
      altloc_ids |-> l, occupancies |-> o] :
        r \in [1..n -> {1, 2}], l \in [1..n -> {".", "A", "B"}],
        o \in [1..n -> {50, 100}]}

DtypeCalls ==
    {[fn |-> "_dtype", alphabet_size |-> n] :
        n \in {1, 2, 255, 256, 257, 65536, 65537}}

\* the frame of a base with the given ring centers placed by rot and origin
FrameOf(std_ring_centers, rot, origin) ==
    TransformVectors(std_ring_centers, <<<<0, 0, 0>>, rot, origin>>)

StackingCalls ==
    {[fn |-> "_check_base_stacking",
      transformed_vectors |-> <<FrameOf(c1, RotI, <<0, 0, 0>>),
                                FrameOf(c2, rot, origin)>>] :
        c1 \in {_std_adenine_ring_centers, _std_thymine_ring_centers},
        c2 \in {_std_adenine_ring_centers, _std_thymine_ring_centers},
        rot \in {RotI, RotX, RotZ},
        origin \in {<<0, 0, 0>>, <<0, 0, 3400>>, <<0, 0, -3400>>,
                    <<0, 3500, 3400>>, <<3000, 0, 3000>>, <<0, 0, 4600>>,
                    <<0, 0, 8000>>}}

\* two bases of two atoms each on a line, the second base at the distance
\* gap from the first, with every choice of donor and acceptor masks
HbondsCalls ==
    {[fn |-> "_check_hbonds",
      bases |-> <<<<[coord |-> <<0, 0, 0>>], [coord |-> <<1000, 0, 0>>]>>,
                  <<[coord |-> <<gap, 0, 0>>],
                    [coord |-> <<gap + 1000, 0, 0>>]>>>>,
      hbond_masks |-> <<<<d1, a1>>, <<d2, a2>>>>] :
        gap \in {4000, 5000, 5001},
        d1 \in [1..2 -> BOOLEAN], a1 \in [1..2 -> BOOLEAN],
        d2 \in [1..2 -> BOOLEAN], a2 \in [1..2 -> BOOLEAN]}

\* pairs of residues: an adenine in the position of its template, and
\* thymines in frames with the opposite normal
DssrCalls ==
    {[fn |-> "_check_dssr_criteria",
      basepair |-> <<BuildResidue(d1, 1), BuildResidue(d2, 2)>>,
      min_atoms_per_base |-> 3] :
        d1 \in {Res("A", "A", 2, "complete", 11, RotI, <<0, 0, 0>>),
                Res("A", "A", 1, "hydrogens", 11, RotI, <<0, 0, 0>>)},
        d2 \in {Res("DT", "T", 2, "complete", 10, RotX, <<0, 0, 0>>),
                Res("DT", "T", 1, "hydrogens", 10, RotX, <<0, 0, 0>>),
                Res("DT", "T", 2, "complete", 10, RotX, <<3000, 0, 0>>),
                Res("DT", "T", 2, "complete", 10, RotX, <<0, 20000, 0>>),
                Res("T", "T", 1, "complete", 10, RotZ, <<0, 3500, 3400>>),
                Res("DT", "T", 2, "complete", 10, RotS, <<0, 3000, 0>>)}}

main == <<input, templates, pc, run, finder, basepairs, order, ci, bi, locals,
          exception, verdicts, results>>

InitSingle ==
    /\ StartWith(<<>>, 3)
    /\ \/ \E n \in 1..MaxAltlocAtoms :
              call \in FirstAltlocCalls(n) \cup HighestAltlocCalls(n)
       \/ call \in DtypeCalls \cup StackingCalls \cup HbondsCalls
                       \cup DssrCalls
    /\ rets = <<>>
    /\ file = NoFile

CallFilterFirstAltloc ==
    /\ call.fn = "filter_first_altloc"
    /\ Len(rets) < MaxRuns
    /\ rets' = Append(rets, filter_first_altloc(call.atoms, call.altloc_ids))
    /\ UNCHANGED <<main, call, file>>

\* every call may run in a process of its own
CallFilterHighestOccupancyAltloc ==
    /\ call.fn = "filter_highest_occupancy_altloc"
    /\ Len(rets) < MaxRuns
    /\ \E set_order \in {<<"A", "B">>, <<"B", "A">>} :
           rets' = Append(rets,
                          filter_highest_occupancy_altloc(
                              call.atoms, call.altloc_ids, call.occupancies,
                              set_order))
    /\ UNCHANGED <<main, call, file>>

CallDtype ==
    /\ call.fn = "_dtype"
    /\ Len(rets) < MaxRuns
    /\ rets' = Append(rets, _dtype(call.alphabet_size))
    /\ UNCHANGED <<main, call, file>>

CallCheckBaseStacking ==
    /\ call.fn = "_check_base_stacking"
    /\ Len(rets) < MaxRuns
    /\ rets' = Append(rets, _check_base_stacking(call.transformed_vectors))
    /\ UNCHANGED <<main, call, file>>

CallCheckHbonds ==
    /\ call.fn = "_check_hbonds"
    /\ Len(rets) < MaxRuns
    /\ rets' = Append(rets, _check_hbonds(call.bases, call.hbond_masks))
    /\ UNCHANGED <<main, call, file>>

\* the pair is passed with either residue as base 1
CallCheckDssrCriteria ==
    /\ call.fn = "_check_dssr_criteria"
    /\ Len(rets) < MaxRuns
    /\ \E basepair \in {call.basepair,
                         <<call.basepair[2], call.basepair[1]>>} :
           \E r \in {_check_dssr_criteria(basepair,
                                          call.min_atoms_per_base)} :
               rets' = Append(rets, [base1 |-> basepair[1][1].res_name,
                                     result |-> r])
    /\ UNCHANGED <<main, call, file>>

NextSingle ==
    \/ CallFilterFirstAltloc
    \/ CallFilterHighestOccupancyAltloc
    \/ CallDtype
    \/ CallCheckBaseStacking
    \/ CallCheckHbonds
    \/ CallCheckDssrCriteria

SpecSingle == InitSingle /\ [][NextSingle]_vars

(***************************************************************************)
(* io/dbn/file.py: DBNFile.  A string is a sequence of characters, a line  *)
(* a string, _entries a function from headers to <<start, stop>> (the      *)
(* positions are zero-based as in the source), and an object a record of   *)
(* its attributes.  An operation gives the object after it and what it     *)
(* returned or raised.                                                     *)
(***************************************************************************)
Outcome(self, out) == [self |-> self, out |-> out]

\* str.strip(): without the whitespace at the two ends
RECURSIVE lstrip(_)
lstrip(s) ==
    IF s # <<>> /\ Head(s) \in {" ", "\n", "\t"} THEN lstrip(Tail(s)) ELSE s

RECURSIVE rstrip(_)
rstrip(s) ==
    IF s # <<>> /\ s[Len(s)] \in {" ", "\n", "\t"}
    THEN rstrip(SubSeq(s, 1, Len(s) - 1))
    ELSE s

strip(s) == rstrip(lstrip(s))

\* biotite.file.wrap_string(text, width): the text cut into pieces of width
\* characters, the last one shorter
RECURSIVE wrap_string(_, _)
wrap_string(text, width) ==
    IF text = <<>> THEN <<>>
    ELSE IF Len(text) <= width THEN <<text>>
    ELSE <<SubSeq(text, 1, width)>>
             \o wrap_string(SubSeq(text, width + 1, Len(text)), width)

\* DBNFile.__init__(chars_per_line): TextFile.__init__ sets lines, line 19
\* sets _entries, and nothing keeps chars_per_line
__init__(chars_per_line) == [lines |-> <<>>, _entries |-> <<>>]

\* the zero-based positions of the lines that start with '>' (lines 98 to
\* 101)
HeaderPositions(lines) ==
    SelectSeq([i \in 1..Len(lines) |-> i - 1],
              LAMBDA i : lines[i + 1][1] = ">")

\* the header and the line range of the j-th header line (lines 104 to 115)
EntryAt(lines, header_i, j) ==
    [header |-> Tail(strip(lines[header_i[j] + 1])),
     start |-> header_i[j],
     stop |-> IF j < Len(header_i) THEN header_i[j + 1] ELSE Len(lines)]

\* DBNFile._find_entries: a later line with the same header replaces the
\* entry of an earlier one
_find_entries(self) ==
    IF Len(self.lines) > 0 /\ self.lines[1][1] # ">"
    THEN Outcome(self, Raise("InvalidFileError",
                             "File starts with another character than '>'"))
    ELSE LET header_i == HeaderPositions(self.lines)
             entry(j) == EntryAt(self.lines, header_i, j)
             last(h) == CHOOSE j \in 1..Len(header_i) :
                            /\ entry(j).header = h
                            /\ \A k \in (j + 1)..Len(header_i) :
                                   entry(k).header # h
         IN  Outcome([self EXCEPT !._entries =
                         [h \in {entry(j).header : j \in 1..Len(header_i)} |->
                             <<entry(last(h)).start, entry(last(h)).stop>>]],
                     Return(None))

\* DBNFile.read(file) (lines 21 to 31), for the lines of the text file
read(text) ==
    LET kept == SelectSeq(text,
                          LAMBDA line : Len(strip(line)) # 0 /\ line[1] # "#")
    IN  IF Len(kept) = 0
        THEN Outcome(__init__(80),
                     Raise("InvalidFileError",
                           "File is empty or contains only comments"))
        ELSE _find_entries([__init__(80) EXCEPT !.lines = kept])

\* del self.lines[start:stop]
DeleteLines(lines, start, stop) ==
    SubSeq(lines, 1, start) \o SubSeq(lines, stop + 1, Len(lines))

\* DBNFile.__delitem__ (lines 77 to 81)
__delitem__(self, header) ==
    IF header \notin DOMAIN self._entries
    THEN Outcome(self, Raise("KeyError", header))
    ELSE _find_entries(
             [self EXCEPT
                 !.lines = DeleteLines(@, self._entries[header][1],
                                       self._entries[header][2]),
                 !._entries = [h \in DOMAIN @ \ {header} |-> @[h]]])

\* DBNFile.__setitem__ (lines 33 to 62) for a header string and a payload
\* whose first value is a string; line 47 reads self._chars_per_line
__setitem__(self, header, payload) ==
    IF "_chars_per_line" \notin DOMAIN self
    THEN Outcome(self,
                 Raise("AttributeError",
                       "'DBNFile' object has no attribute '_chars_per_line'"))
    ELSE LET new_lines ==
                 <<<<">">> \o strip(SelectSeq(header,
                                              LAMBDA c : c # "\n"))>>
                     \o wrap_string(payload[1], self._chars_per_line)
         IN  IF header \in DOMAIN self._entries
             THEN LET deleted == __delitem__(self, header)
                  IN  IF deleted.out.kind = "raise" THEN deleted
                      ELSE _find_entries(
                               [deleted.self EXCEPT
                                   !.lines = @ \o new_lines])
             ELSE Outcome(
                      [self EXCEPT
                          !.lines = @ \o new_lines,
                          !._entries =
                              [h \in DOMAIN self._entries \cup {header} |->
                                  IF h = header
                                  THEN <<Len(self.lines),
                                         Len(self.lines) + Len(new_lines)>>
                                  ELSE self._entries[h]]],
                      Return(None))

\* DBNFile.__getitem__ (lines 64 to 75): the string built in lines 71 to
\* 74 is not used, line 75 returns the name payload, which the function
\* never binds
__getitem__(self, header) ==
    IF header \notin DOMAIN self._entries
    THEN Outcome(self, Raise("KeyError", header))
    ELSE Outcome(self, Raise("NameError", "name 'payload' is not defined"))

\* DBNFile.__len__
__len__(self) == Cardinality(DOMAIN self._entries)

(***************************************************************************)
(* A DBNFile object, made by DBNFile() or by DBNFile.read(), and calls of  *)
(* file[header] = payload, file[header] and del file[header] on it; rets   *)
(* holds the calls made and what each gave.                                *)
(***************************************************************************)
MaxOps == 3

Headers == {<<"a">>, <<"b", "c">>}

Payloads == {<<<<"A", "C">>, <<"(", ")">>>>,
             <<<<"G", "G", "U">>, <<".", ".", ".">>>>}

\* the lines of the text files read
TextFiles ==
    {<< <<">", "a">>, <<"A", "C">> >>,
     << <<"#", "x">>, <<">", "a">>, <<"A", "C">>, <<" ">>,
        <<">", "b", "c">>, <<"G", "G">>, <<"U">> >>}

InitDBN ==
    /\ StartWith(<<>>, 3)
    /\ \/ call = [fn |-> "DBNFile", headers |-> {}] /\ file = __init__(80)
       \/ \E text \in TextFiles :
              /\ file = read(text).self
              /\ call = [fn |-> "DBNFile.read",
                         headers |-> DOMAIN file._entries]
    /\ rets = <<>>

SetItem ==
    /\ Len(rets) < MaxOps
    /\ \E header \in Headers : \E payload \in Payloads :
           \E r \in {__setitem__(file, header, payload)} :
               /\ file' = r.self
               /\ rets' = Append(rets, [op |-> "set", header |-> header,
                                        payload |-> payload, out |-> r.out])
    /\ UNCHANGED <<main, call>>

GetItem ==
    /\ Len(rets) < MaxOps
    /\ \E header \in Headers :
           \E r \in {__getitem__(file, header)} :
               /\ file' = r.self
               /\ rets' = Append(rets, [op |-> "get", header |-> header,
                                        payload |-> <<>>, out |-> r.out])
    /\ UNCHANGED <<main, call>>

DelItem ==
    /\ Len(rets) < MaxOps
    /\ \E header \in Headers :
           \E r \in {__delitem__(file, header)} :
               /\ file' = r.self
               /\ rets' = Append(rets, [op |-> "del", header |-> header,
                                        payload |-> <<>>, out |-> r.out])
    /\ UNCHANGED <<main, call>>

NextDBN ==
    \/ SetItem
    \/ GetItem
    \/ DelItem

SpecDBN == InitDBN /\ [][NextDBN]_vars

(***************************************************************************)
(* Properties.                                                             *)
(***************************************************************************)
\* base k of a candidate, as get_basepairs selects it
CandBase(cand, k) ==
    MaskSel(atom_array,
            _filter_residues(atom_array, cand[2 * k - 1], cand[2 * k]))

\* the reference frames of the two bases of a candidate
CandFrames(cand) ==
    <<_match_base(CandBase(cand, 1), min_atoms_per_base).value[4],
      _match_base(CandBase(cand, 2), min_atoms_per_base).value[4]>>

Supported(base) == base[1].res_name \in SupportedNames

\* the number of atoms of the selected template and of those found in base
TemplateAtoms(base) ==
    Len(SelectNaming(StdOf(base[1].res_name).bases, base))

MatchedAtoms(base) ==
    CountTrue(in1d(SelectNaming(StdOf(base[1].res_name).bases, base), base))

\* an incomplete base with fewer matched atoms than the threshold
TooFew(base) ==
    /\ Supported(base)
    /\ MatchedAtoms(base) < TemplateAtoms(base)
    /\ MatchedAtoms(base) < min_atoms_per_base

\* an incomplete base with at least as many matched atoms as the threshold
Covered(base) ==
    /\ Supported(base)
    /\ MatchedAtoms(base) < TemplateAtoms(base)
    /\ MatchedAtoms(base) >= min_atoms_per_base

Reversed(t) == <<t[3], t[4], t[1], t[2]>>

\* C1: a residue whose name is none of the recognized base identities never
\* ends the call of get_basepairs: no call ends with an exception raised for
\* a base of an unsupported type.
C1_UnsupportedNeverAborts ==
    pc = "raised" => Supported(BaseOf(bi))

\* C2: a residue that matches fewer template atoms than min_atoms_per_base
\* never ends the call of get_basepairs: no call ends with an exception
\* raised for such a base.
C2_TooFewNeverAborts ==
    pc = "raised" => ~ TooFew(BaseOf(bi))

\* C3: an incomplete residue that matches at least min_atoms_per_base
\* template atoms is not excluded: _match_base returns for it and the
\* candidate goes on to the criteria, so no call ends with an exception
\* raised for such a base.
C3_CoveredBaseProceeds ==
    pc = "raised" => ~ Covered(BaseOf(bi))

\* the vertical separation as the specification defines it: the distance of
\* the origin of base 2 from the x/y plane of base 1, the absolute value of
\* the third coefficient of the linear system
VerticalSeparationLE(tsv, c) ==
    LET t == VerticalSystem(tsv)[3]
    IN  t * t <= c * c

\* the five criteria of the specification for the bases matched last, whose
\* frames are tsv
FiveCriteria(tsv, cand) ==
    /\ Criterion1(tsv)
    /\ VerticalSeparationLE(tsv, 2500)
    /\ Criterion3(tsv)
    /\ Criterion4(tsv)
    /\ Criterion5(transformed_bases, hbond_masks, contains_hydrogens)

\* C4: for every candidate whose two bases are matched, the verdict of
\* _check_dssr_criteria is true exactly when all five criteria hold (origin
\* distance <= 15, vertical separation <= 2.5, normal angle >= 115 degrees,
\* no stacking, hydrogen bond present).
C4_AcceptedIffAllFive ==
    (pc = "loop" /\ verdicts # <<>>) =>
        (verdicts[Len(verdicts)].result <=>
            FiveCriteria(transformed_std_vectors,
                         basepair_candidates[Len(verdicts)]))

\* C5: the list of accepted pairs never holds, at two positions, a tuple
\* (resA, chainA, resB, chainB) and its reversal (resB, chainB, resA, chainA).
C5_NoPairInBothOrders ==
    \A i \in 1..Len(basepairs) : \A j \in 1..Len(basepairs) :
        i # j => basepairs[i] # Reversed(basepairs[j])

\* C5, witness: a call has returned two accepted tuples.
C5_Witness == pc = "returned" /\ Len(basepairs) >= 2

\* C6: at every step of the enumeration the candidate list holds each
\* unordered pair of (residue id, chain id) tuples at most once: neither the
\* same 4-tuple twice nor a 4-tuple together with its reversal.
C6_CandidatesUnique ==
    \A i \in 1..Len(basepair_candidates) :
        \A j \in 1..Len(basepair_candidates) :
            i # j => /\ basepair_candidates[i] # basepair_candidates[j]
                     /\ basepair_candidates[i]
                            # Reversed(basepair_candidates[j])

AnchorKey(a) == <<a.res_id, a.chain_id>>

\* the anchor atoms i and j lie in the distance band
InBand(anchors, i, j) ==
    /\ DistGT(anchors[i].coord, anchors[j].coord, min_cutoff)
    /\ DistLE(anchors[i].coord, anchors[j].coord, max_cutoff)

SystemNeverSingular ==
    pc = "crit2" => det(VerticalMatrix(transformed_std_vectors)) # 0

\* C8: the value criterion 2 compares against 2.5 is the absolute value of
\* the third coefficient of the offset of the origins in the basis
\* {x1, y1, -z1}: criterion 2 passes exactly when that value is <= 2.5.
C8_VerticalSeparation ==
    pc = "crit2" =>
        (Criterion2(transformed_std_vectors)
            <=> VerticalSeparationLE(transformed_std_vectors, 2500))

\* two stacked bases: a pair of ring centers within 4.5, an angle of at most
\* 23 degrees between the z-axes, the direction between such centers within
\* 40 degrees of a z-axis, and the origins within 15
Stacked(tsv) ==
    /\ DistLE(tsv[1][1], tsv[2][1], 15000)
    /\ dot(tsv[1][4], tsv[2][4]) * 100000 >= 92050
    /\ \E i \in 5..Len(tsv[1]) : \E j \in 5..Len(tsv[2]) :
           /\ DistLE(tsv[1][i], tsv[2][j], 4500)
           /\ \E k \in 1..2 : ArccosLE40(tsv[k][4], VSub(tsv[2][j], tsv[1][i]))

UnorderedPairs(pairs) ==
    {{<<pairs[i][1], pairs[i][2]>>, <<pairs[i][3], pairs[i][4]>>} :
        i \in 1..Len(pairs)}

\* C10: every call of get_basepairs on the same structure with the same
\* min_atoms_per_base ends the same way and with the same list of accepted
\* pairs, hence with the same set of unordered pairs.
C10_SameResultEveryRun ==
    \A i \in 1..Len(results) : \A j \in 1..Len(results) :
        /\ results[i].status = results[j].status
        /\ results[i].basepairs = results[j].basepairs
        /\ UnorderedPairs(results[i].basepairs)
               = UnorderedPairs(results[j].basepairs)

\* C10, witness: a second call has returned a list that is not empty.
C10_Witness ==
    /\ Len(results) >= 2
    /\ results[2].status = "returned"
    /\ results[2].basepairs # <<>>

\* C11: after any sequence of get_basepairs and _match_base calls the
\* module-level template data of the five bases (atom names and coordinates
\* of both naming variants, ring centers, donor and acceptor masks) equal
\* their values at module load.
C11_TemplatesNeverMutated == templates = LoadedTemplates

\* C11, witness: a second call of get_basepairs has matched a complete base
\* and then ended in _match_base for an incomplete one.
C11_Witness ==
    /\ run >= 2
    /\ pc = "raised"
    /\ bi = 2
    /\ exception.type = "IncompleteStructureWarning"

\* the numbers of atoms the templates are stated to have
TemplateSizes ==
    [adenine |-> 11, cytosine |-> 9, guanine |-> 12, thymine |-> 10,
     uracil |-> 9]

\* C14: for each of the five templates the donor mask and the acceptor mask
\* have as many entries as the template has atoms (11, 9, 12, 10, 9 for A,
\* C, G, T, U), every entry set to true lies inside the template, and both
\* naming variants have the same number of atoms.
C14_MaskLengths ==
    \A name \in DOMAIN templates :
        /\ Len(templates[name].bases[1]) = TemplateSizes[name]
        /\ Len(templates[name].bases[2]) = TemplateSizes[name]
        /\ \A k \in 1..2 :
               /\ Len(templates[name].hbond_masks[k]) = TemplateSizes[name]
               /\ \A i \in DOMAIN templates[name].hbond_masks[k] :
                      templates[name].hbond_masks[k][i] =>
                          i \in 1..Len(templates[name].bases[1])

\* C14, witness: the templates are loaded and the donor mask of guanine has
\* an entry set to true.
C14_Witness ==
    /\ pc = "idle"
    /\ \E i \in 1..Len(templates.guanine.hbond_masks[1]) :
           templates.guanine.hbond_masks[1][i]

\* the positions inside _check_dssr_criteria
EvaluationStages == {"match", "crit1", "crit2", "crit3", "crit4", "crit5"}

\* C15: candidate enumeration finishes before the first candidate is
\* evaluated: whenever get_basepairs is in its loop or inside
\* _check_dssr_criteria, the loop of _get_proximate_basepair_candidates has
\* gone through every row of the adjacency matrix and the finder has returned.
C15_EnumerationBeforeEvaluation ==
    pc \in EvaluationStages \cup {"loop"} =>
        /\ ix > Len(SelectAnchors(atom_array))
        /\ c1sugars = <<>>

\* C15, witness: a candidate is being evaluated.
C15_Witness == pc = "crit1" /\ basepair_candidates # <<>>

\* whether the criterion checked at a position holds for the locals
CriterionAt(stage) ==
    CASE stage = "crit1" -> Criterion1(transformed_std_vectors)
      [] stage = "crit2" -> Criterion2(transformed_std_vectors)
      [] stage = "crit3" -> Criterion3(transformed_std_vectors)
      [] stage = "crit4" -> Criterion4(transformed_std_vectors)
      [] stage = "crit5" -> Criterion5(transformed_bases, hbond_masks,
                                       contains_hydrogens)

CriteriaOrder == <<"crit1", "crit2", "crit3", "crit4", "crit5">>

CandOutcome(c) ==
    LET r1 == _match_base(CandBase(c, 1), min_atoms_per_base)
        r2 == _match_base(CandBase(c, 2), min_atoms_per_base)
    IN  IF r1.kind = "raise" \/ r2.kind = "raise" THEN "raise"
        ELSE IF /\ Criterion1(<<r1.value[4], r2.value[4]>>)
                /\ Criterion2(<<r1.value[4], r2.value[4]>>)
                /\ Criterion3(<<r1.value[4], r2.value[4]>>)
                /\ Criterion4(<<r1.value[4], r2.value[4]>>)
                /\ Criterion5(<<r1.value[1], r2.value[1]>>,
                              <<r1.value[2], r2.value[2]>>,
                              <<r1.value[3], r2.value[3]>>)
        THEN "accept"
        ELSE "reject"

SameResidue(atoms, i, j) ==
    \A k \in 1..Len(atoms) :
        (k >= i /\ k <= j) \/ (k >= j /\ k <= i)
            => atoms[k].res_id = atoms[i].res_id

\* atom j is the first atom with a letter altloc ID in the residue of atom i
FirstLetterAtom(atoms, altloc_ids, i, j) ==
    /\ SameResidue(atoms, i, j)
    /\ altloc_ids[j] \in {"A", "B"}
    /\ \A k \in 1..(j - 1) :
           SameResidue(atoms, i, k) => altloc_ids[k] \notin {"A", "B"}

\* C16: filter_first_altloc marks an atom exactly when the atom has no
\* altloc ID ('.', '?', ' ' or '') or has the altloc ID of the first atom with
\* a letter altloc ID in its own residue; the test looks at the atoms of the
\* atom's own residue only.
C16_FirstAltloc ==
    call.fn = "filter_first_altloc" =>
        \A r \in 1..Len(rets) :
            /\ Len(rets[r]) = Len(call.atoms)
            /\ \A i \in 1..Len(call.atoms) :
                   rets[r][i] <=>
                       \/ call.altloc_ids[i] \in {".", "?", " ", ""}
                       \/ \E j \in 1..Len(call.atoms) :
                              /\ FirstLetterAtom(call.atoms,
                                                 call.altloc_ids, i, j)
                              /\ call.altloc_ids[i] = call.altloc_ids[j]

\* two residues whose first letter IDs differ, each atom judged by the ID
\* of its own residue
C16_Witness ==
    /\ call.fn = "filter_first_altloc"
    /\ call.atoms = AtomsOf(<<1, 1, 2>>)
    /\ call.altloc_ids = <<"A", "B", "B">>
    /\ rets # <<>>
    /\ rets[1] = <<TRUE, FALSE, TRUE>>

\* the summed occupancy of the altloc ID id over the residue of atom i
ResidueOccupancy(atoms, altloc_ids, occupancies, i, id) ==
    OccupancySum([k \in 1..Len(atoms) |->
                     IF SameResidue(atoms, i, k) THEN occupancies[k] ELSE 0],
                 altloc_ids, id, 1)

\* C17: filter_highest_occupancy_altloc marks an atom exactly when it has no
\* altloc ID or its altloc ID is the one selected for its residue; the
\* selected ID has the highest summed occupancy over the residue, exactly one
\* letter ID is selected per residue that has letter IDs, and every run on
\* the same input selects the same IDs, also when two IDs have equal sums.
C17_HighestOccupancyAltloc ==
    call.fn = "filter_highest_occupancy_altloc" =>
        /\ \A r \in 1..Len(rets) : \A i \in 1..Len(call.atoms) :
               \/ /\ call.altloc_ids[i] \in {".", "?", " ", ""}
                  /\ rets[r][i]
               \/ /\ call.altloc_ids[i] \in {"A", "B"}
                  /\ rets[r][i] =>
                         \A id \in {"A", "B"} :
                             ResidueOccupancy(call.atoms, call.altloc_ids,
                                              call.occupancies, i, id)
                                 <= ResidueOccupancy(call.atoms,
                                        call.altloc_ids, call.occupancies,
                                        i, call.altloc_ids[i])
                  /\ \E j \in 1..Len(call.atoms) :
                         /\ SameResidue(call.atoms, i, j)
                         /\ rets[r][j]
                         /\ call.altloc_ids[j] \in {"A", "B"}
                         /\ \A k \in 1..Len(call.atoms) :
                                SameResidue(call.atoms, i, k)
                                    /\ call.altloc_ids[k] \in {"A", "B"}
                                    => (rets[r][k] <=>
                                           call.altloc_ids[k]
                                               = call.altloc_ids[j])
        /\ \A r \in 1..Len(rets) : rets[r] = rets[1]

\* the smallest byte count b with 256^b >= alphabet_size
SmallestByteCount(alphabet_size) ==
    CHOOSE b \in 1..3 :
        /\ 256 ^ b >= alphabet_size
        /\ \A c \in 1..(b - 1) : 256 ^ c < alphabet_size

\* C18: Sequence._dtype returns, for every alphabet size of at least 1, the
\* unsigned type with the smallest byte count b such that 256^b is at least
\* the alphabet size: "u1" up to 256 symbols, "u2" from 257 to 65536.
C18_SmallestUnsignedType ==
    call.fn = "_dtype" =>
        \A r \in 1..Len(rets) :
            rets[r] = Return(<<"u", SmallestByteCount(call.alphabet_size)>>)

\* C20: _check_base_stacking reports stacking exactly when a pair of ring
\* centers, one of each base, is within 4.5, the angle between the two
\* z-axes is at most 23 degrees, and the vector from the center of base 1 to
\* the center of base 2 of some pair within 4.5 forms an angle of at most 40
\* degrees with the z-axis of base 1 or of base 2.
C20_StackingIffThreeConditions ==
    call.fn = "_check_base_stacking" =>
        \E tsv \in {call.transformed_vectors} :
            \A r \in 1..Len(rets) :
                rets[r] <=>
                    /\ \E i \in 5..Len(tsv[1]) : \E j \in 5..Len(tsv[2]) :
                           distance2(tsv[1][i], tsv[2][j]) <= 4500 * 4500
                    /\ dot(tsv[1][4], tsv[2][4]) * 100000 >= 92050
                    /\ \E i \in 5..Len(tsv[1]) : \E j \in 5..Len(tsv[2]) :
                           /\ distance2(tsv[1][i], tsv[2][j]) <= 4500 * 4500
                           /\ \/ ArccosLE40(tsv[1][4],
                                             VSub(tsv[2][j], tsv[1][i]))
                              \/ ArccosLE40(tsv[2][4],
                                             VSub(tsv[2][j], tsv[1][i]))

\* two parallel bases 3.4 apart along their common normal are reported as
\* stacked
C20_Witness ==
    /\ call.fn = "_check_base_stacking"
    /\ call.transformed_vectors[2][1] = <<0, 0, 3400>>
    /\ call.transformed_vectors[2][4] = <<0, 0, 1>>
    /\ rets # <<>>
    /\ rets[1] = TRUE

\* atom i of base d is a donor and atom j of base a an acceptor, by the
\* masks of their own bases, and the two are at most 4.0 apart
PlausibleBond(bs, masks, d, a, i, j) ==
    /\ masks[d][1][i]
    /\ masks[a][2][j]
    /\ distance2(bs[d][i].coord, bs[a][j].coord) <= 4000 * 4000

\* C21: _check_hbonds returns true exactly when, with base 1 as donor and
\* base 2 as acceptor or the other way round, a donor-masked atom of the
\* donor base and an acceptor-masked atom of the acceptor base are at most
\* 4.0 apart, the donor mask being that of the donor base and the acceptor
\* mask that of the acceptor base.
C21_PlausibleHbond ==
    call.fn = "_check_hbonds" =>
        \A r \in 1..Len(rets) :
            rets[r] <=>
                \/ \E i \in 1..2 : \E j \in 1..2 :
                       PlausibleBond(call.bases, call.hbond_masks, 1, 2, i, j)
                \/ \E i \in 1..2 : \E j \in 1..2 :
                       PlausibleBond(call.bases, call.hbond_masks, 2, 1, i, j)

\* base 2 is the donor and base 1 the acceptor, the two atoms exactly 4.0
\* apart; the masks of the other role assignment are empty
C21_Witness ==
    /\ call.fn = "_check_hbonds"
    /\ call.bases[2][1].coord = <<5000, 0, 0>>
    /\ call.hbond_masks = <<<<<<FALSE, FALSE>>, <<FALSE, TRUE>>>>,
                            <<<<TRUE, FALSE>>, <<FALSE, FALSE>>>>>>
    /\ rets # <<>>
    /\ rets[1] = TRUE

\* base k of the candidate under evaluation has an explicit hydrogen atom
CarriesHydrogens(k) ==
    \E i \in 1..Len(transformed_bases[k]) :
        transformed_bases[k][i].element = "H"

\* C22: a candidate that reached criterion 5 is accepted exactly when, both
\* bases carrying explicit hydrogens, the hydrogen-bond detector finds a bond
\* among the merged atoms of the two bases, or, a base being without
\* hydrogens, the donor/acceptor plausibility sub-check returns true.
C22_Criterion5Branch ==
    (pc = "loop" /\ verdicts # <<>> /\ verdicts[Len(verdicts)].at = "crit5")
        => (verdicts[Len(verdicts)].result <=>
               IF CarriesHydrogens(1) /\ CarriesHydrogens(2)
               THEN hbond(transformed_bases[1] \o transformed_bases[2]) # {}
               ELSE _check_hbonds(transformed_bases, hbond_masks))

\* a candidate of which only one base carries hydrogens, judged by the
\* plausibility sub-check against the verdict of the detector
C22_Witness ==
    /\ pc = "loop"
    /\ verdicts # <<>>
    /\ verdicts[Len(verdicts)].at = "crit5"
    /\ CarriesHydrogens(1) # CarriesHydrogens(2)
    /\ verdicts[Len(verdicts)].result
           # (hbond(transformed_bases[1] \o transformed_bases[2]) # {})

\* the cosine of the angle between the z-axes of the two frames under
\* evaluation, in units of 0.00001
NormalsCosine ==
    (transformed_std_vectors[1][4][1] * transformed_std_vectors[2][4][1]
       + transformed_std_vectors[1][4][2] * transformed_std_vectors[2][4][2]
       + transformed_std_vectors[1][4][3] * transformed_std_vectors[2][4][3])
        * 100000

Matched(k) ==
    \/ pc \in {"crit1", "crit2", "crit3", "crit4", "crit5"}
    \/ k = 1 /\ pc = "match" /\ bi = 2

\* the number of atom names of the naming variant that occur in the residue
Overlap(variant, base) ==
    Cardinality(atom_names(variant) \cap atom_names(base))

\* the variant with the larger overlap, the legacy one (PDB v2, the first of
\* the pair) on equal overlap
LargerOverlap(variants, base) ==
    IF Overlap(variants[2], base) > Overlap(variants[1], base)
    THEN variants[2]
    ELSE variants[1]

\* C24: _match_base uses the modern naming variant of the template exactly
\* when strictly more of its atom names occur in the residue than names of
\* the legacy variant, and the legacy variant otherwise: a matched base
\* keeps the heavy atoms that the variant with the larger overlap names, and
\* a base found incomplete is incomplete under that variant.
C24_NamingVariant ==
    /\ \A k \in 1..2 :
           Matched(k) =>
               \E base \in {BaseOf(k)} :
                   {a.atom_name :
                       a \in {b \in Range(transformed_bases[k]) :
                                 b.element # "H"}}
                       = atom_names(base)
                           \cap atom_names(
                                    LargerOverlap(
                                        StdOf(base[1].res_name).bases, base))
    /\ (pc = "raised" /\ exception.type = "IncompleteStructureWarning") =>
           \E base \in {BaseOf(bi)} :
               \E variant \in {LargerOverlap(StdOf(base[1].res_name).bases,
                                              base)} :
                   Overlap(variant, base) < Len(variant)

\* a matched residue that has as many names of the one variant as of the
\* other, and more than the two variants share
C24_Witness ==
    /\ Matched(1)
    /\ \E base \in {BaseOf(1)} :
           \E variants \in {StdOf(base[1].res_name).bases} :
               /\ Overlap(variants[2], base) = Overlap(variants[1], base)
               /\ atom_names(variants[1]) \cap atom_names(base)
                      # atom_names(variants[2]) \cap atom_names(base)

C25_CandidatesHaveAnchors ==
    \A c \in Range(basepair_candidates) : \A k \in 1..2 :
        /\ c[2 * k - 1] # -1
        /\ \E i \in 1..Len(atom_array) :
               /\ atom_array[i].res_id = c[2 * k - 1]
               /\ atom_array[i].chain_id = c[2 * k]
               /\ atom_array[i].res_name \in _nucleotide_list
               /\ atom_array[i].atom_name \in {"C1'", "C1*"}

\* the enumeration has finished with a candidate on a structure that also
\* holds an atom C1' with the residue ID -1
C25_Witness ==
    /\ pc = "loop"
    /\ basepair_candidates # <<>>
    /\ \E i \in 1..Len(atom_array) :
           /\ atom_array[i].res_id = -1
           /\ atom_array[i].atom_name = "C1'"

\* the positions of the candidates for which _check_dssr_criteria returned
\* True, in the order of the candidate list
AcceptedPositions ==
    SelectSeq([k \in 1..Len(verdicts) |-> k],
              LAMBDA k : verdicts[k].result)

\* C28: when get_basepairs returns, every candidate has a verdict and the
\* result is the candidate list restricted to the candidates with a true
\* verdict, in candidate order: nothing else is returned, no accepted
\* candidate is missing, and none is returned more often than it was
\* accepted.
C28_ResultIsAcceptedSubsequence ==
    pc = "returned" =>
        /\ Len(verdicts) = Len(basepair_candidates)
        /\ basepairs = [n \in 1..Len(AcceptedPositions) |->
                           basepair_candidates[AcceptedPositions[n]]]
        /\ results[Len(results)].basepairs = basepairs

\* a call that returned two different accepted candidates
C28_Witness ==
    /\ pc = "returned"
    /\ Len(basepairs) = 2
    /\ basepairs[1] # basepairs[2]
    /\ basepairs[1] = basepair_candidates[1]

\* C27: the verdict of _check_dssr_criteria does not depend on which
\* residue of the pair is passed as base 1: the evaluations of a pair in the
\* two orders both accept or both reject.
C27_VerdictOrderIndependent ==
    call.fn = "_check_dssr_criteria" =>
        \A r \in 1..Len(rets) : \A q \in 1..Len(rets) :
            rets[r].result = rets[q].result

\* the headers stored in the file: those of the file read and those set,
\* unless deleted since
StoredHeaders ==
    {h \in Headers :
        IF \E k \in 1..Len(rets) :
               rets[k].header = h /\ rets[k].op \in {"set", "del"}
        THEN \E k \in 1..Len(rets) :
                 /\ rets[k].header = h
                 /\ rets[k].op = "set"
                 /\ \A n \in (k + 1)..Len(rets) :
                        rets[n].header = h => rets[n].op = "get"
        ELSE h \in call.headers}

C30_SetThenGet ==
    call.fn = "DBNFile" =>
        \A k \in 1..Len(rets) :
            /\ rets[k].op = "set" => rets[k].out.kind = "return"
            /\ (k > 1 /\ rets[k].op = "get" /\ rets[k - 1].op = "set"
                    /\ rets[k - 1].header = rets[k].header)
                   => rets[k].out = Return(rets[k - 1].payload[1])

====
